---- MODULE Spec2Model ----
(***************************************************************************)
(* A model of the orchestration core of the chat bot:                      *)
(*   - VectorRetriever.retrieve_passages   (cogops/retriver/vector_search)  *)
(*   - TokenManager.build_safe_prompt      (cogops/utils/token_manager)     *)
(*   - AsyncLLMService.stream_with_tool_calls (cogops/models/qwen3async_llm)*)
(*     and the end of ChatAgent.process_query  (cogops/agent)               *)
(*   - stream_chat, clear_session, get_chat_history (api_service)           *)
(*   - ApiKeyManager.get_client (ingestion/proposition/client_handler)      *)
(* Each subsystem has its own specification (SpecRetriever, SpecPrompt,     *)
(* Spec, SpecApi, SpecKeys); the variables of the others stay idle.         *)
(***************************************************************************)
EXTENDS Integers, Sequences, FiniteSets, TLC

VARIABLES
    \* ---- VectorRetriever.retrieve_passages ----
    rpc,                   \* position inside retrieve_passages
    index,                 \* what each collection's index answers: Seq of passage ids
    list_of_ranked_lists,  \* the gathered results, one per collection queried so far
    failed,                \* the collections whose query raised
    sorted_passage_ids,    \* the fused ranking
    top_passage_ids,       \* its first max_passages_to_select entries
    passages_df,           \* the ids of the rows the store returned, in storage order
    result,                \* the value returned by retrieve_passages
    routcome,              \* "running" | "returned" | "raised" | "exit"
    \* ---- TokenManager.build_safe_prompt ----
    tm,                    \* the TokenManager: reservation_tokens, history_budget, tokenizer
    args,                  \* the arguments of one call: template, max_tokens, kwargs
    history_str,           \* what is substituted for {conversation_history}
    final_prompt,          \* the returned string
    hard_truncated,        \* whether the final hard truncation ran
    poutcome,              \* "input" | "returned" | "raised"
    \* ---- ChatAgent.process_query / AsyncLLMService.stream_with_tool_calls ----
    pc,                    \* position of the turn
    messages,              \* the transcript passed to the model
    events,                \* the events yielded to the caller, in order
    received,              \* the chunks read from the model streams, in order
    response_content,      \* response_message["content"]
    tool_call_index_map,   \* the accumulators, in insertion order
    tool_calls,            \* response_message["tool_calls"] once finalized
    tool_state,            \* per tool call: "pending" | "running" | "returned" | "failed" | "skipped" | "exited"
    model_calls,           \* calls of client.chat.completions.create so far
    failure,               \* what made the turn fail: "none" | "prompt" | "context_length" | "network"
    escaped,               \* the exception that left process_query, or "none"
    session_meta,          \* the session_meta argument of stream_with_tool_calls
    invocations,           \* the calls of tool functions made so far, with their keyword arguments
    self_history,          \* ChatAgent.history: (user_query, answer) tuples, oldest first
    recorded,              \* whether the lines after the stream loop of process_query have run
    \* ---- api_service: stream_chat, clear_session, get_chat_history; RedisManager ----
    requests,              \* per request: kind, position, query, history read, answer, background task, response
    redis_session,         \* whether the key session:<id> exists
    redis_history,         \* the list history:<id>, head first
    appended,              \* the (user, assistant) pairs given to append_to_history since the keys were last deleted
    pg_deleted,            \* whether the row of the session in Sessions has deleted_at set
    pg_history,            \* the rows of ConversationHistory of the session, in insertion order
    now,                   \* the clock that stamps created_at
    \* ---- ingestion: ApiKeyManager.get_client ----
    kpc,                   \* position inside get_client: "ready" between calls, "scan", "wait"
    clock,                 \* datetime.now(), in units of five seconds
    key_last_used,         \* per key: when it was last dispatched, or NoTime
    last_global_call_time, \* when any key was last dispatched, or NoTime
    key_index,             \* self.index, the round-robin start
    waited,                \* whether the current call went through _wait_for_next_available_key
    dispatched             \* the keys handed out so far: key, time, whether the call waited

rvars == <<rpc, index, list_of_ranked_lists, failed, sorted_passage_ids,
           top_passage_ids, passages_df, result, routcome>>

pvars == <<tm, args, history_str, final_prompt, hard_truncated, poutcome>>

evars == <<pc, messages, events, received, response_content, tool_call_index_map,
           tool_calls, tool_state, model_calls, failure, escaped,
           session_meta, invocations, self_history, recorded>>

avars == <<requests, redis_session, redis_history, appended, pg_deleted, pg_history, now>>

kvars == <<kpc, clock, key_last_used, last_global_call_time, key_index, waited, dispatched>>

vars == <<rvars, pvars, evars, avars, kvars>>

\* the retriever before any call
RetrieverIdle ==
    /\ rpc = "idle"
    /\ index = <<>>
    /\ list_of_ranked_lists = <<>>
    /\ failed = {}
    /\ sorted_passage_ids = <<>>
    /\ top_passage_ids = <<>>
    /\ passages_df = <<>>
    /\ result = <<>>
    /\ routcome = "idle"

\* the token manager before any call
PromptIdle ==
    /\ tm = <<>>
    /\ args = <<>>
    /\ history_str = <<>>
    /\ final_prompt = <<>>
    /\ hard_truncated = FALSE
    /\ poutcome = "idle"

\* the engine before any turn
EngineIdle ==
    /\ pc = "idle"
    /\ messages = <<>>
    /\ events = <<>>
    /\ received = <<>>
    /\ response_content = ""
    /\ tool_call_index_map = <<>>
    /\ tool_calls = <<>>
    /\ tool_state = <<>>
    /\ model_calls = 0
    /\ failure = "none"
    /\ escaped = "none"
    /\ session_meta = "idle"
    /\ invocations = <<>>
    /\ self_history = <<>>
    /\ recorded = FALSE

\* the service before any request
ApiIdle ==
    /\ requests = <<>>
    /\ redis_session = FALSE
    /\ redis_history = <<>>
    /\ appended = <<>>
    /\ pg_deleted = FALSE
    /\ pg_history = <<>>
    /\ now = 0

\* the key manager before any call
KeysIdle ==
    /\ kpc = "off"
    /\ clock = 0
    /\ key_last_used = <<>>
    /\ last_global_call_time = 0
    /\ key_index = 0
    /\ waited = FALSE
    /\ dispatched = <<>>

-----------------------------------------------------------------------------
(* Generic helpers *)

Min(a, b) == IF a <= b THEN a ELSE b

Max(a, b) == IF a >= b THEN a ELSE b

Range(s) == {s[i] : i \in 1..Len(s)}

RECURSIVE SeqsUpTo(_, _)
\* every sequence over S of length <= n
SeqsUpTo(S, n) ==
    IF n = 0 THEN {<<>>}
    ELSE LET shorter == SeqsUpTo(S, n - 1)
         IN  shorter \cup {Append(s, x) : s \in {t \in shorter : Len(t) = n - 1}, x \in S}

-----------------------------------------------------------------------------
(* VectorRetriever *)

\* configured collection names, in configured order (self.collection_names)
collection_names == <<"c1", "c2", "c3">>

\* results asked of each collection (self.top_k, set by the configuration)
top_k == 2

\* passage ids are 1..MaxId
MaxId == 3

rrf_k == 60

\* self.max_passages_to_select, set by the configuration
max_passages_to_select == 2

PassageIds == 1..MaxId

RECURSIVE ScoreScale(_)
\* a common multiple of the denominators rrf_k + rank, so that scores are
\* exact integers: score * ScoreScale(top_k)
ScoreScale(n) == IF n = 0 THEN 1 ELSE (rrf_k + n) * ScoreScale(n - 1)

\* _query_collection_async on success: (passage_id, rank) with rank = i + 1
RankedResults(ids) == [i \in 1..Len(ids) |-> <<ids[i], i>>]

\* the propagating variant of the handler: the exception leaves the coroutine
query_collection_async_NoCatch(raises, ids) ==
    IF raises THEN [raised |-> TRUE, value |-> <<>>]
    ELSE [raised |-> FALSE, value |-> RankedResults(ids)]

\* _query_collection_async: the ranked list, or [] when collection.query raises
\* (except Exception: log, return [])
query_collection_async(raises, ids) ==
    IF raises THEN [raised |-> FALSE, value |-> <<>>]
    ELSE [raised |-> FALSE, value |-> RankedResults(ids)]

RECURSIVE AddList(_, _, _)
\* the inner loop of step 3: fused_scores[passage_id] += 1.0 / (rrf_k + rank);
\* `scores` is the dict as a sequence of <<id, score>> in insertion order
AddEntry(scores, pid, rank) ==
    LET inc == ScoreScale(top_k) \div (rrf_k + rank)
    IN  IF \E j \in 1..Len(scores) : scores[j][1] = pid
        THEN [j \in 1..Len(scores) |->
                IF scores[j][1] = pid THEN <<pid, scores[j][2] + inc>> ELSE scores[j]]
        ELSE Append(scores, <<pid, inc>>)

AddList(scores, ranked_list, i) ==
    IF i > Len(ranked_list) THEN scores
    ELSE AddList(AddEntry(scores, ranked_list[i][1], ranked_list[i][2]), ranked_list, i + 1)

RECURSIVE FuseFrom(_, _, _)
FuseFrom(scores, lists, c) ==
    IF c > Len(lists) THEN scores
    ELSE FuseFrom(AddList(scores, lists[c], 1), lists, c + 1)

\* scanning the lists from the last collection to the first
FusedScores_LastFirst(lists) ==
    FuseFrom(<<>>, [c \in 1..Len(lists) |-> lists[Len(lists) + 1 - c]], 1)

\* fused_scores after step 3, keys in first-seen order
FusedScores(lists) == FuseFrom(<<>>, lists, 1)

RECURSIVE InsertDesc_Ascending(_, _)
InsertDesc_Ascending(sorted, e) ==
    IF sorted = <<>> THEN <<e>>
    ELSE IF Head(sorted)[2] <= e[2] THEN <<Head(sorted)>> \o InsertDesc_Ascending(Tail(sorted), e)
    ELSE <<e>> \o sorted

RECURSIVE InsertDesc(_, _)
\* stable insertion for sorted(..., reverse=True): e goes after every entry
\* whose score is greater than or equal to its own
InsertDesc(sorted, e) ==
    IF sorted = <<>> THEN <<e>>
    ELSE IF Head(sorted)[2] >= e[2] THEN <<Head(sorted)>> \o InsertDesc(Tail(sorted), e)
    ELSE <<e>> \o sorted

RECURSIVE SortDesc(_, _, _)
SortDesc(acc, scores, i) ==
    IF i > Len(scores) THEN acc
    ELSE SortDesc(InsertDesc(acc, scores[i]), scores, i + 1)

\* step 4: sorted(fused_scores.keys(), key=score, reverse=True)
SortedPassageIds(scores) ==
    LET s == SortDesc(<<>>, scores, 1) IN [i \in 1..Len(s) |-> s[i][1]]

\* sorted_passage_ids[:self.max_passages_to_select]
TopSlice(ids) == SubSeq(ids, 1, Min(Len(ids), max_passages_to_select))

RECURSIVE KeepPresent(_, _)
\* step 5: the rows of passage_map, in the order of top_passage_ids
KeepPresent(ids, present) ==
    IF ids = <<>> THEN <<>>
    ELSE IF Head(ids) \in present THEN <<Head(ids)>> \o KeepPresent(Tail(ids), present)
    ELSE KeepPresent(Tail(ids), present)

\* returning the rows as the store gave them
OrderedPassages_StorageOrder(ids, rows) == rows

\* lines 174-189: [] for an empty frame, else passage_map from the rows and
\* one passage per id of top_passage_ids found in it
OrderedPassages(ids, rows) == IF rows = <<>> THEN <<>> ELSE KeepPresent(ids, Range(rows))

\* what SELECT ... WHERE passage_id IN (ids) can answer: the rows of the ids the
\* table holds (passage_id is its primary key), in any order
StoreAnswers(ids) ==
    {rows \in SeqsUpTo(Range(ids), Len(ids)) : \A i, j \in 1..Len(rows) : rows[i] = rows[j] => i = j}

InitRetriever ==
    /\ rpc = "embed"
    /\ index \in [1..Len(collection_names) -> SeqsUpTo(PassageIds, top_k)]
    /\ list_of_ranked_lists = <<>>
    /\ failed = {}
    /\ sorted_passage_ids = <<>>
    /\ top_passage_ids = <<>>
    /\ passages_df = <<>>
    /\ result = <<>>
    /\ routcome = "running"
    /\ PromptIdle
    /\ EngineIdle
    /\ ApiIdle
    /\ KeysIdle

\* step 1: self.embedder.embed_queries([query])[0], outside every try block
EmbedQuery ==
    /\ rpc = "embed"
    /\ \/ rpc' = "query" /\ UNCHANGED routcome
       \/ rpc' = "done" /\ routcome' = "raised"
    /\ UNCHANGED <<index, list_of_ranked_lists, failed, sorted_passage_ids,
                   top_passage_ids, passages_df, result>>
    /\ UNCHANGED <<pvars, evars, avars, kvars>>

\* step 2: one _query_collection_async per collection; the coroutine body has
\* no suspension point, so gather runs them in configured order
QueryCollection ==
    /\ rpc = "query"
    /\ \E raises \in BOOLEAN :
         LET c == Len(list_of_ranked_lists) + 1
             r == query_collection_async(raises, index[c])
         IN  /\ failed' = (IF raises THEN failed \cup {c} ELSE failed)
             /\ IF r.raised
                THEN /\ rpc' = "done"
                     /\ routcome' = "raised"
                     /\ UNCHANGED list_of_ranked_lists
                ELSE /\ list_of_ranked_lists' = Append(list_of_ranked_lists, r.value)
                     /\ rpc' = (IF c = Len(collection_names) THEN "fuse" ELSE "query")
                     /\ UNCHANGED routcome
    /\ UNCHANGED <<index, sorted_passage_ids, top_passage_ids, passages_df, result>>
    /\ UNCHANGED <<pvars, evars, avars, kvars>>

\* steps 3 and 4: fuse, sort, slice; an empty fusion returns []
FuseAndSelect ==
    /\ rpc = "fuse"
    /\ LET scores == FusedScores(list_of_ranked_lists)
       IN  IF scores = <<>>
           THEN /\ rpc' = "done"
                /\ routcome' = "returned"
                /\ result' = <<>>
                /\ UNCHANGED <<sorted_passage_ids, top_passage_ids>>
           ELSE /\ sorted_passage_ids' = SortedPassageIds(scores)
                /\ top_passage_ids' = TopSlice(sorted_passage_ids')
                /\ rpc' = "fetch"
                /\ UNCHANGED <<result, routcome>>
    /\ UNCHANGED <<index, list_of_ranked_lists, failed, passages_df>>
    /\ UNCHANGED <<pvars, evars, avars, kvars>>

\* step 5: select_passages_by_ids; a failing query calls sys.exit(-1), and
\* SystemExit is not an Exception, so the except clause does not catch it
FetchPassages ==
    /\ rpc = "fetch"
    /\ rpc' = "done"
    /\ \/ \E rows \in StoreAnswers(top_passage_ids) :
             /\ passages_df' = rows
             /\ result' = OrderedPassages(top_passage_ids, rows)
             /\ routcome' = "returned"
       \/ /\ routcome' = "exit"
          /\ UNCHANGED <<passages_df, result>>
    /\ UNCHANGED <<index, list_of_ranked_lists, failed, sorted_passage_ids, top_passage_ids>>
    /\ UNCHANGED <<pvars, evars, avars, kvars>>

NextRetriever == EmbedQuery \/ QueryCollection \/ FuseAndSelect \/ FetchPassages

SpecRetriever == InitRetriever /\ [][NextRetriever]_vars

-----------------------------------------------------------------------------
(* Claims about retrieve_passages *)

RECURSIVE SumTerms(_)
\* the sum of the scaled reciprocal ranks of a set of <<collection, rank>> places
SumTerms(places) ==
    IF places = {} THEN 0
    ELSE LET p == CHOOSE q \in places : TRUE
         IN  (ScoreScale(top_k) \div (rrf_k + p[2])) + SumTerms(places \ {p})

\* the collections whose search succeeded
Succeeded == {c \in 1..Len(collection_names) : c \notin failed}

\* every place <<collection, rank>> at which a succeeded collection lists pid
Occurrences(pid) == {<<c, i>> \in Succeeded \X (1..top_k) : i <= Len(index[c]) /\ index[c][i] = pid}

\* one place per collection that lists pid: its first (best) rank there
FirstOccurrences(pid) == {p \in Occurrences(pid) : \A q \in Occurrences(pid) : q[1] = p[1] => p[2] <= q[2]}

\* one term per occurrence of pid in the succeeded lists
OccurrenceScore(pid) == SumTerms(Occurrences(pid))

\* one term per collection whose list contains pid
PerCollectionScore(pid) == SumTerms(FirstOccurrences(pid))

Fused == rpc = "fetch" \/ (rpc = "done" /\ routcome \in {"returned", "exit"} /\ sorted_passage_ids # <<>>)

\* C5 as stated: the ids are ordered by non-increasing fused score, the score
\* of an id being one term 1/(rrf_k + rank) per collection whose list contains it.
C5_OrderedByPerCollectionScore ==
    Fused => \A i, j \in 1..Len(sorted_passage_ids) :
                i < j => PerCollectionScore(sorted_passage_ids[i]) >= PerCollectionScore(sorted_passage_ids[j])

\* C5 amended: the ids are ordered by non-increasing fused score, the score of
\* an id being one term 1/(rrf_k + rank) per occurrence of the id in the ranked
\* lists (an id listed twice by one collection gets two terms); every listed id
\* appears exactly once in the ranking.
C5_OrderedByOccurrenceScore ==
    Fused =>
        /\ \A i, j \in 1..Len(sorted_passage_ids) :
              i < j => /\ OccurrenceScore(sorted_passage_ids[i]) >= OccurrenceScore(sorted_passage_ids[j])
                       /\ sorted_passage_ids[i] # sorted_passage_ids[j]
        /\ Range(sorted_passage_ids) = {pid \in PassageIds : Occurrences(pid) # {}}

\* an id at rank 2 of one collection and rank 1 of another is placed before an
\* id listed once, at rank 1
C5_Witness ==
    /\ rpc = "fetch"
    /\ Len(sorted_passage_ids) >= 2
    /\ Occurrences(sorted_passage_ids[1]) = {<<1, 2>>, <<2, 1>>}
    /\ Occurrences(sorted_passage_ids[2]) = {<<1, 1>>}

\* C6: failing collection searches never make retrieve_passages raise; every
\* collection is still searched, a failed one counting as the empty list; the
\* ranking is the fusion of the succeeded lists (non-empty when one of them is),
\* and when nothing is found the result is the empty list, returned normally.
C6_PartialFailure ==
    /\ (routcome = "raised" => failed = {} /\ list_of_ranked_lists = <<>>)
    /\ (rpc \in {"fuse", "fetch"} \/ (rpc = "done" /\ routcome # "raised")) =>
          /\ Len(list_of_ranked_lists) = Len(collection_names)
          /\ \A c \in 1..Len(collection_names) :
                list_of_ranked_lists[c] = IF c \in failed THEN <<>> ELSE RankedResults(index[c])
    /\ (rpc = "fetch" \/ (rpc = "done" /\ routcome # "raised")) =>
          /\ Range(sorted_passage_ids) = {pid \in PassageIds : Occurrences(pid) # {}}
          /\ \A i, j \in 1..Len(sorted_passage_ids) :
                i < j => OccurrenceScore(sorted_passage_ids[i]) >= OccurrenceScore(sorted_passage_ids[j])
          /\ top_passage_ids = SubSeq(sorted_passage_ids, 1, Len(top_passage_ids))
    /\ (rpc = "done" /\ routcome # "raised" /\ \A pid \in PassageIds : Occurrences(pid) = {}) =>
          routcome = "returned" /\ result = <<>>

\* one of the three searches failed and the other two gave a ranking of two ids
C6_Witness ==
    /\ rpc = "done"
    /\ routcome = "returned"
    /\ Cardinality(failed) = 1
    /\ Len(sorted_passage_ids) = 2
    /\ Len(result) = 2

\* the position of an id in the fused ranking
RankOf(pid) == CHOOSE i \in 1..Len(sorted_passage_ids) : sorted_passage_ids[i] = pid

\* C11: what retrieve_passages returns after the fetch is at most
\* max_passages_to_select passages: those of the first max_passages_to_select
\* ids of the fused ranking that the store returned a row for, each once, in
\* the order of the fused ranking whatever the order of the rows.
C11_TopSelectedInFusedOrder ==
    (rpc = "done" /\ routcome = "returned" /\ sorted_passage_ids # <<>>) =>
        /\ Len(result) <= max_passages_to_select
        /\ Range(result) =
              {sorted_passage_ids[i] : i \in 1..Min(Len(sorted_passage_ids), max_passages_to_select)}
                  \cap Range(passages_df)
        /\ \A i, j \in 1..Len(result) : i < j => RankOf(result[i]) < RankOf(result[j])

\* three ids were ranked, the store returned the rows of the first two in the
\* opposite order, and both are returned in ranking order
C11_Witness ==
    /\ rpc = "done"
    /\ routcome = "returned"
    /\ Len(sorted_passage_ids) = 3
    /\ passages_df = <<sorted_passage_ids[2], sorted_passage_ids[1]>>
    /\ result = <<sorted_passage_ids[1], sorted_passage_ids[2]>>

\* the place at which pid is first met when the succeeded lists are scanned in
\* configured collection order, each from its best rank: places are numbered
\* collection by collection
FirstAppearance(pid) ==
    LET place(p) == p[1] * (top_k + 1) + p[2]
        first == CHOOSE p \in Occurrences(pid) : \A q \in Occurrences(pid) : place(p) <= place(q)
    IN  place(first)

\* C25: the ranking is determined by the per-collection ranked lists alone: a
\* listed id comes before another exactly when its fused score is greater, or
\* the scores are equal and it appears first when the lists are scanned in
\* configured collection order; the gathered lists are in configured order
\* whichever searches failed.
C25_RankingDetermined ==
    Fused =>
        /\ \A c \in 1..Len(collection_names) :
              list_of_ranked_lists[c] = IF c \in failed THEN <<>> ELSE RankedResults(index[c])
        /\ \A i, j \in 1..Len(sorted_passage_ids) :
              i < j =>
                  LET a == sorted_passage_ids[i]
                      b == sorted_passage_ids[j]
                  IN  \/ OccurrenceScore(a) > OccurrenceScore(b)
                      \/ /\ OccurrenceScore(a) = OccurrenceScore(b)
                         /\ FirstAppearance(a) < FirstAppearance(b)

\* ids 3 and 1 have equal scores; 3 is listed by the first collection and 1 by
\* a later one, and 3 is ranked first
C25_Witness ==
    /\ rpc = "fetch"
    /\ sorted_passage_ids = <<3, 1>>
    /\ OccurrenceScore(3) = OccurrenceScore(1)
    /\ Occurrences(3) = {<<1, 1>>}
    /\ \E c \in {2, 3} : Occurrences(1) = {<<c, 1>>}

\* C30: whatever the store fetch does, retrieve_passages returns a list: once
\* the ids were selected and the fetch is over, the call has returned (with
\* the empty list when the store failed) and nothing has ended the process.
C30_FetchAlwaysReturnsList ==
    (rpc = "done" /\ top_passage_ids # <<>>) => routcome = "returned"

-----------------------------------------------------------------------------
(* TokenManager *)

\* A text is a sequence of one-character strings.  The tokenizer is a greedy
\* longest-match tokenizer whose vocabulary holds every single character and
\* the merged token "ab"; a token is the text it stands for.
MergedToken == <<"a", "b">>

\* the special token that tokenizer.encode adds in front when the tokenizer
\* is configured with one (add_special_tokens defaults to True)
BosToken == <<"<s>">>

RECURSIVE Encode(_)
\* tokenizer.encode(text, add_special_tokens=False)
Encode(text) ==
    IF text = <<>> THEN <<>>
    ELSE IF Len(text) >= 2 /\ SubSeq(text, 1, 2) = MergedToken
         THEN <<MergedToken>> \o Encode(SubSeq(text, 3, Len(text)))
         ELSE <<SubSeq(text, 1, 1)>> \o Encode(Tail(text))

\* tokenizer.encode(text): special tokens added
EncodeSpecial(text) == (IF tm.adds_bos THEN <<BosToken>> ELSE <<>>) \o Encode(text)

RECURSIVE Decode(_)
\* tokenizer.decode(tokens, skip_special_tokens=True)
Decode(tokens) ==
    IF tokens = <<>> THEN <<>>
    ELSE (IF Head(tokens) = BosToken THEN <<>> ELSE Head(tokens)) \o Decode(Tail(tokens))

count_tokens(text) == IF text = <<>> THEN 0 ELSE Len(Encode(text))

\* "No conversation history yet."
NoHistoryYet == <<"N", "o">>

\* "History is too long to be included in this turn's context."
HistoryTooLong == <<"T", "o", "o">>

\* f"User: {u}\nAssistant: {a}"
FormatTurn(turn) == <<"U">> \o turn[1] \o <<"A">> \o turn[2]

RECURSIVE FormatHistory(_)
\* "\n---\n".join(...)
FormatHistory(turns) ==
    IF turns = <<>> THEN <<>>
    ELSE IF Len(turns) = 1 THEN FormatTurn(turns[1])
    ELSE FormatTurn(turns[1]) \o <<"-">> \o FormatHistory(Tail(turns))

\* popping the newest turn instead
PopOldest_Newest(truncated_history) == SubSeq(truncated_history, 1, Len(truncated_history) - 1)

\* truncated_history.pop(0)
PopOldest(truncated_history) == Tail(truncated_history)

RECURSIVE TruncateLoop(_, _)
\* the while loop of _truncate_history
TruncateLoop(truncated_history, max_tokens) ==
    IF truncated_history = <<>> THEN HistoryTooLong
    ELSE IF count_tokens(FormatHistory(truncated_history)) <= max_tokens
         THEN FormatHistory(truncated_history)
         ELSE TruncateLoop(PopOldest(truncated_history), max_tokens)

truncate_history(history, max_tokens) ==
    IF history = <<>> THEN NoHistoryYet ELSE TruncateLoop(history, max_tokens)

\* the keyword arguments that are measured: every key but 'history'
StaticKeys == {"user_query", "store_catalog"}

RECURSIVE SumTokens(_, _)
SumTokens(kwargs, keys) ==
    IF keys = {} THEN 0
    ELSE LET k == CHOOSE x \in keys : TRUE
         IN  count_tokens(kwargs[k]) + SumTokens(kwargs, keys \ {k})

\* remaining_tokens, clamped at 0
RemainingTokens(a) ==
    Max(0, (a.max_tokens - tm.reservation_tokens) - SumTokens(a.kwargs, StaticKeys))

\* int(remaining_tokens * self.history_budget); the fraction is num/den
HistoryBudgetTokens(a) == (RemainingTokens(a) * tm.history_budget[1]) \div tm.history_budget[2]

\* history_str as lines 75-78 compute it
HistoryStr(a) ==
    IF a.kwargs.history # <<>>
    THEN truncate_history(a.kwargs.history, HistoryBudgetTokens(a))
    ELSE NoHistoryYet

\* a template is a sequence of parts: literal text, or a replacement field
Lit(text) == [lit |-> text]

Field(name) == [field |-> name]

IsField(part) == "field" \in DOMAIN part

TemplateFields(template) == {template[i].field : i \in {j \in 1..Len(template) : IsField(template[j])}}

RECURSIVE Format(_, _)
\* template.format(**final_components)
Format(template, components) ==
    IF template = <<>> THEN <<>>
    ELSE (IF IsField(Head(template)) THEN components[Head(template).field] ELSE Head(template).lit)
         \o Format(Tail(template), components)

\* returning the assembled prompt without the final check
HardTruncate_Skipped(prompt, max_tokens) == prompt

\* lines 106-111: encode, slice to max_tokens tokens, decode
HardTruncate(prompt, max_tokens) ==
    IF count_tokens(prompt) > max_tokens
    THEN Decode(SubSeq(EncodeSpecial(prompt), 1, Min(max_tokens, Len(EncodeSpecial(prompt)))))
    ELSE prompt

\* bounds of the inputs drawn
MaxTurns == 2

MaxTokens == 9

TurnTexts == {<<"a">>, <<"b", "b">>}

Queries == {<<"a">>, <<"b", "a", "b">>}

Catalogs == {<<>>, <<"c", "a", "c">>}

Templates ==
    { <<Field("conversation_history"), Field("user_query")>>,
      <<Lit(<<"#">>), Field("conversation_history"), Lit(<<"#", "a">>), Field("user_query")>>,
      <<Lit(<<"#", "#", "#">>), Field("user_query"), Field("agent_story")>> }

InitPrompt ==
    /\ tm \in [reservation_tokens : {0, 2}, history_budget : {<<1, 2>>, <<3, 4>>}, adds_bos : BOOLEAN]
    /\ args \in [template : Templates,
                 max_tokens : 0..MaxTokens,
                 kwargs : [history : SeqsUpTo(TurnTexts \X TurnTexts, MaxTurns),
                           user_query : Queries,
                           store_catalog : Catalogs]]
    /\ history_str = <<>>
    /\ final_prompt = <<>>
    /\ hard_truncated = FALSE
    /\ poutcome = "input"
    /\ RetrieverIdle
    /\ EngineIdle
    /\ ApiIdle
    /\ KeysIdle

\* build_safe_prompt(template, max_tokens, **kwargs).  A template field with no
\* component raises KeyError; the handler formats again with the components
\* filtered by the template, which raises the same KeyError to the caller.
build_safe_prompt ==
    /\ poutcome = "input"
    /\ history_str' = HistoryStr(args)
    /\ LET final_components ==
               [k \in StaticKeys \cup {"conversation_history"} |->
                   IF k = "conversation_history" THEN history_str' ELSE args.kwargs[k]]
       IN  IF TemplateFields(args.template) \subseteq DOMAIN final_components
           THEN LET assembled == Format(args.template, final_components)
                IN  /\ final_prompt' = HardTruncate(assembled, args.max_tokens)
                    /\ hard_truncated' = (count_tokens(assembled) > args.max_tokens)
                    /\ poutcome' = "returned"
           ELSE /\ poutcome' = "raised"
                /\ UNCHANGED <<final_prompt, hard_truncated>>
    /\ UNCHANGED <<tm, args>>
    /\ UNCHANGED <<rvars, evars, avars, kvars>>

NextPrompt == build_safe_prompt

SpecPrompt == InitPrompt /\ [][NextPrompt]_vars

-----------------------------------------------------------------------------
(* Claims about build_safe_prompt *)

LastTurns(history, k) == SubSeq(history, Len(history) - k + 1, Len(history))

\* floor(max(0, max_tokens - reservation_tokens - fixed-field tokens) * fraction)
ClaimedHistoryBudget ==
    LET fixed == count_tokens(args.kwargs.user_query) + count_tokens(args.kwargs.store_catalog)
        available == args.max_tokens - tm.reservation_tokens - fixed
    IN  ((IF available < 0 THEN 0 ELSE available) * tm.history_budget[1]) \div tm.history_budget[2]

FittingSuffixes ==
    {k \in 1..Len(args.kwargs.history) :
        count_tokens(FormatHistory(LastTurns(args.kwargs.history, k))) <= ClaimedHistoryBudget}

-----------------------------------------------------------------------------
(* ChatAgent.process_query and AsyncLLMService.stream_with_tool_calls *)

\* chunks read from the model streams in one turn
MaxDeltas == 3

\* the registry (a part of available_tools_map)
available_tools == {"get_current_time", "retrieve_knowledge"}

\* one entry of delta.tool_calls: a positional index and fragments
TcDelta(i, frag) == [index |-> i, id |-> frag[1], name |-> frag[2], arguments |-> frag[3]]

TcFragments ==
    { <<"call_", "get_", "">>,
      <<"1", "current_time", "{}">>,
      <<"c2", "retrieve_knowledge", "{q:x}">>,
      <<"", "", "}">> }

Chunk(content, tcs) == [has_choice |-> TRUE, content |-> content, tool_calls |-> tcs]

\* a chunk with no choices
EmptyChunk == [has_choice |-> FALSE, content |-> "", tool_calls |-> <<>>]

\* the chunks the endpoint may stream in answer to the first call
Deltas ==
    {EmptyChunk, Chunk("Hel", <<>>), Chunk("lo", <<>>)}
    \cup {Chunk("", <<TcDelta(i, f)>>) : i \in {0, 1}, f \in TcFragments}
    \cup {Chunk("Hel", <<TcDelta(0, <<"call_", "get_", "">>), TcDelta(1, <<"c2", "retrieve_knowledge", "{q:x}">>)>>)}

\* the chunks the endpoint may stream in answer to the final call
FinalDeltas ==
    {EmptyChunk, Chunk("lo ", <<>>), Chunk("", <<TcDelta(0, <<"c2", "retrieve_knowledge", "{q:x}">>)>>)}

AnswerChunk(text) == [type |-> "answer_chunk", content |-> text]

ToolCallEvent(name) == [type |-> "tool_call", tool_name |-> name]

\* the event stream_with_tool_calls yields from its except clause
InternalError == [type |-> "error", content |-> "An internal error occurred while processing your request."]

\* the event process_query yields from its except clauses
ErrorFallback == [type |-> "error", content |-> "error_fallback"]

\* forwarding text only from chunks that carry no tool call
AnswerEvents_UnlessToolCall(delta) ==
    IF delta.content # "" /\ delta.tool_calls = <<>> THEN <<AnswerChunk(delta.content)>> ELSE <<>>

\* announcing a tool as soon as a fragment of its name arrives
AnswerEvents_WithToolNames(delta) ==
    (IF delta.content # "" THEN <<AnswerChunk(delta.content)>> ELSE <<>>)
        \o [k \in 1..Len(delta.tool_calls) |-> ToolCallEvent(delta.tool_calls[k].name)]

\* if delta.content: yield {"type": "answer_chunk", "content": delta.content}
AnswerEvents(delta) ==
    IF delta.content # "" THEN <<AnswerChunk(delta.content)>> ELSE <<>>

\* assigning the fragment instead of appending it
Append_Overwrite(acc, fragment) == IF fragment # "" THEN fragment ELSE acc

\* if fragment: acc += fragment
AppendFragment(acc, fragment) == IF fragment # "" THEN acc \o fragment ELSE acc

\* lines 189-199 for one entry of delta.tool_calls
AccumulateOne(map, tc) ==
    LET m == IF \E j \in 1..Len(map) : map[j].index = tc.index
             THEN map
             ELSE Append(map, [index |-> tc.index, id |-> "", name |-> "", arguments |-> ""])
    IN  [j \in 1..Len(m) |->
            IF m[j].index = tc.index
            THEN [index |-> tc.index,
                  id |-> AppendFragment(m[j].id, tc.id),
                  name |-> AppendFragment(m[j].name, tc.name),
                  arguments |-> AppendFragment(m[j].arguments, tc.arguments)]
            ELSE m[j]]

RECURSIVE Accumulate(_, _)
\* for tc_delta in delta.tool_calls
Accumulate(map, tcs) ==
    IF tcs = <<>> THEN map ELSE Accumulate(AccumulateOne(map, Head(tcs)), Tail(tcs))

\* json.loads(arguments or "{}"): the object that the string spells
JsonLoads(arguments) == IF arguments = "" THEN "{}" ELSE arguments

\* falling back on the empty object when the string does not parse
ParsesAsJson_OrEmpty(arguments) == TRUE

\* json.loads(arguments or "{}") succeeds: the well-formed objects that the
\* argument fragments can spell
ParsesAsJson(arguments) == (IF arguments = "" THEN "{}" ELSE arguments) \in {"{}", "{q:x}"}

\* what calling the tool with the parsed arguments can do: return ("ok"), raise
\* an Exception ("error"), or leave through sys.exit ("exit": retrieve_passages
\* calls select_passages_by_ids, which calls sys.exit(-1) when the query fails)
ToolOutcomes(name, arguments) ==
    LET kwargs == IF arguments = "" THEN "{}" ELSE arguments
    IN  IF name = "get_current_time"
        THEN (IF kwargs = "{}" THEN {"ok"} ELSE {"error"})
        ELSE (IF kwargs = "{q:x}" THEN {"ok", "error", "exit"} ELSE {"error"})

\* the session_meta arguments of the turns that are compared
SessionMetas == {"guest", "user_42"}

\* the names listed at line 230
SessionMetaTools == {"get_user_order_profile_as_markdown"}

\* adding session_meta to the arguments of every registered tool
InjectsSessionMeta_Registered(name) == name \in available_tools

\* if function_name in ["get_user_order_profile_as_markdown"]
InjectsSessionMeta(name) == name \in SessionMetaTools

\* function_args as the tool function receives them: the parsed object, and
\* the key session_meta ("absent" when the key is not set)
FunctionArgs(call, meta) ==
    [parsed |-> JsonLoads(call.arguments),
     session_meta |-> IF InjectsSessionMeta(call.name) THEN meta ELSE "absent"]

\* a tool message that does not carry the id of its call
ToolMessage_Untagged(call, content) ==
    [role |-> "tool", tool_call_id |-> "", name |-> call.name, content |-> content]

\* lines 241-246 and 249-252
ToolMessage(call, content) ==
    [role |-> "tool", tool_call_id |-> call.id, name |-> call.name, content |-> content]

\* answering a call of an unknown tool with an error message
UnknownToolMessages_Error(call) == <<ToolMessage(call, "Error: Tool execution failed with message")>>

\* lines 253-254: a name that is not in the registry is logged, nothing is
\* appended to the transcript
UnknownToolMessages(call) == <<>>

ToolResult == "str(function_response)"

ToolError == "Error: Tool execution failed with message"

\* going on while a tool call is still running
RoundComplete_Early(states) == \A i \in 1..Len(states) : states[i] # "pending"

\* the for loop over tool_calls has ended: every call was awaited or skipped
RoundComplete(states) == \A i \in 1..Len(states) : states[i] \notin {"pending", "running"}

\* dispatching a call while a sibling is still running
MayStart_Concurrent(states, i) == states[i] = "pending"

\* the for loop awaits each call before it takes the next one, in list order
MayStart(states, i) ==
    /\ states[i] = "pending"
    /\ \A j \in 1..Len(states) : states[j] # "running"
    /\ \A j \in 1..(i - 1) : states[j] # "pending"

\* going on to the tool round whatever was accumulated
HasToolCalls_Always(calls) == TRUE

\* if not tool_calls: return
HasToolCalls(calls) == calls # <<>>

\* reading the response to the final call with the first loop, which collects
\* tool calls and runs another round
AfterToolRound_Loop == "stream1"

\* the response to the final call (no tools offered) is read by the loop of
\* lines 262-265, which forwards text only
AfterToolRound == "stream2"

\* conversation.history_window of the configuration
history_window == 2

user_query == "price?"

\* self.history when the turn starts: the two turns recorded before it, which
\* fill the window
EarlierTurns == <<<<"q1", "a1">>, <<"q2", "a2">>>>

RECURSIVE JoinAnswerChunks(_)
\* "".join(full_final_answer): the contents of the answer_chunk events
JoinAnswerChunks(evs) ==
    IF evs = <<>> THEN ""
    ELSE (IF Head(evs).type = "answer_chunk" THEN Head(evs).content ELSE "")
             \o JoinAnswerChunks(Tail(evs))

RECURSIVE Strip(_)
\* str.strip(): without the leading and trailing blanks
Strip(text) ==
    IF text = "" THEN ""
    ELSE IF SubSeq(text, 1, 1) = " " THEN Strip(SubSeq(text, 2, Len(text)))
    ELSE IF SubSeq(text, Len(text), Len(text)) = " " THEN Strip(SubSeq(text, 1, Len(text) - 1))
    ELSE text

\* if final_answer_str:
ShouldRecord(final_answer_str) == final_answer_str # ""

\* dropping the newest turn
PopIfLong_Newest(h) == IF Len(h) > history_window THEN SubSeq(h, 1, Len(h) - 1) ELSE h

\* if len(self.history) > self.history_window: self.history.pop(0)
PopIfLong(h) == IF Len(h) > history_window THEN Tail(h) ELSE h

Init ==
    /\ pc = "prompt"
    /\ messages = <<>>
    /\ events = <<>>
    /\ received = <<>>
    /\ response_content = ""
    /\ tool_call_index_map = <<>>
    /\ tool_calls = <<>>
    /\ tool_state = <<>>
    /\ model_calls = 0
    /\ failure = "none"
    /\ escaped = "none"
    /\ session_meta \in SessionMetas
    /\ invocations = <<>>
    /\ self_history = EarlierTurns
    /\ recorded = FALSE
    /\ RetrieverIdle
    /\ PromptIdle
    /\ ApiIdle
    /\ KeysIdle

\* the exceptions a call of the endpoint can raise: BadRequestError for a
\* prompt longer than the context window, or a connection error or timeout
CreateErrors == {"context_length", "network"}

\* the event the except clause yields for an exception: the same for all
ErrorEvent(kind) == InternalError

\* calling the endpoint again after a failure
AfterFailure_Retry == "create1"

\* after the except clause the generator ends
AfterFailure == "done"

\* the except clause of stream_with_tool_calls: yield the error event, end
Abort(kinds) ==
    \E kind \in kinds :
        /\ failure' = kind
        /\ events' = Append(events, ErrorEvent(kind))
        /\ pc' = AfterFailure

\* process_query, lines 158-179: build the prompt and the two messages; an
\* exception of build_safe_prompt is caught by process_query itself
BuildPrompt ==
    /\ pc = "prompt"
    /\ \/ /\ messages' = <<[role |-> "system"], [role |-> "user"]>>
          /\ pc' = "create1"
          /\ UNCHANGED <<events, failure>>
       \/ /\ events' = Append(events, ErrorFallback)
          /\ pc' = "done"
          /\ failure' = "prompt"
          /\ UNCHANGED messages
    /\ UNCHANGED <<received, response_content, tool_call_index_map, tool_calls,
                   tool_state, model_calls, escaped>>
    /\ UNCHANGED <<session_meta, invocations, self_history, recorded>>
    /\ UNCHANGED <<rvars, pvars, avars, kvars>>

\* lines 166-172: the first call, with the tools offered
CreateFirst ==
    /\ pc = "create1"
    /\ model_calls' = model_calls + 1
    /\ \/ /\ pc' = "stream1"
          /\ response_content' = ""
          /\ tool_call_index_map' = <<>>
          /\ UNCHANGED <<events, failure>>
       \/ /\ Abort(CreateErrors)
          /\ UNCHANGED <<response_content, tool_call_index_map>>
    /\ UNCHANGED <<messages, received, tool_calls, tool_state, escaped>>
    /\ UNCHANGED <<session_meta, invocations, self_history, recorded>>
    /\ UNCHANGED <<rvars, pvars, avars, kvars>>

\* lines 174-199: one iteration of the loop over the first stream
ReadDelta ==
    /\ pc = "stream1"
    /\ Len(received) < MaxDeltas
    /\ \E delta \in Deltas :
          /\ received' = Append(received, [stream |-> 1, delta |-> delta])
          /\ IF delta.has_choice
             THEN /\ events' = events \o AnswerEvents(delta)
                  /\ response_content' = response_content \o delta.content
                  /\ tool_call_index_map' = Accumulate(tool_call_index_map, delta.tool_calls)
             ELSE UNCHANGED <<events, response_content, tool_call_index_map>>
    /\ UNCHANGED <<pc, messages, tool_calls, tool_state, model_calls, escaped>>
    /\ UNCHANGED failure
    /\ UNCHANGED <<session_meta, invocations, self_history, recorded>>
    /\ UNCHANGED <<rvars, pvars, avars, kvars>>

\* lines 201-214: the stream ended; no tool call ends the turn
EndOfStream ==
    /\ pc = "stream1"
    /\ tool_calls' = tool_call_index_map
    /\ IF ~HasToolCalls(tool_call_index_map)
       THEN /\ pc' = "done"
            /\ UNCHANGED <<messages, tool_state>>
       ELSE /\ messages' = Append(messages, [role |-> "assistant", content |-> response_content,
                                             tool_calls |-> tool_call_index_map])
            /\ tool_state' = [i \in 1..Len(tool_call_index_map) |-> "pending"]
            /\ pc' = "tools"
    /\ UNCHANGED <<events, received, response_content, tool_call_index_map, model_calls, escaped>>
    /\ UNCHANGED failure
    /\ UNCHANGED <<session_meta, invocations, self_history, recorded>>
    /\ UNCHANGED <<rvars, pvars, avars, kvars>>

\* the endpoint fails while a stream is being read
StreamFails ==
    /\ pc \in {"stream1", "stream2"}
    /\ Abort({"network"})
    /\ UNCHANGED <<messages, received, response_content, tool_call_index_map, tool_calls,
                   tool_state, model_calls, escaped>>
    /\ UNCHANGED <<session_meta, invocations, self_history, recorded>>
    /\ UNCHANGED <<rvars, pvars, avars, kvars>>

\* lines 217-238: the next tool call of the for loop, up to the await
ToolStart ==
    /\ pc = "tools"
    /\ \E i \in 1..Len(tool_state) :
          /\ MayStart(tool_state, i)
          /\ events' = Append(events, ToolCallEvent(tool_calls[i].name))
          /\ IF tool_calls[i].name \notin available_tools
             THEN /\ tool_state' = [tool_state EXCEPT ![i] = "skipped"]
                  /\ messages' = messages \o UnknownToolMessages(tool_calls[i])
             ELSE IF ~ParsesAsJson(tool_calls[i].arguments)
             THEN /\ tool_state' = [tool_state EXCEPT ![i] = "failed"]
                  /\ messages' = Append(messages, ToolMessage(tool_calls[i], ToolError))
             ELSE /\ tool_state' = [tool_state EXCEPT ![i] = "running"]
                  /\ UNCHANGED messages
          /\ invocations' =
                IF tool_calls[i].name \in available_tools /\ ParsesAsJson(tool_calls[i].arguments)
                THEN Append(invocations, [call |-> i, name |-> tool_calls[i].name,
                                          function_args |-> FunctionArgs(tool_calls[i], session_meta)])
                ELSE invocations
    /\ UNCHANGED <<pc, received, response_content, tool_call_index_map, tool_calls,
                   model_calls, escaped>>
    /\ UNCHANGED failure
    /\ UNCHANGED <<session_meta, self_history, recorded>>
    /\ UNCHANGED <<rvars, pvars, avars, kvars>>

\* lines 235-252: the awaited tool returns, raises, or exits
ToolReturn ==
    /\ pc = "tools"
    /\ \E i \in 1..Len(tool_state) :
          /\ tool_state[i] = "running"
          /\ \E outcome \in ToolOutcomes(tool_calls[i].name, tool_calls[i].arguments) :
                CASE outcome = "ok" ->
                        /\ messages' = Append(messages, ToolMessage(tool_calls[i], ToolResult))
                        /\ tool_state' = [tool_state EXCEPT ![i] = "returned"]
                        /\ UNCHANGED <<pc, escaped>>
                  [] outcome = "error" ->
                        /\ messages' = Append(messages, ToolMessage(tool_calls[i], ToolError))
                        /\ tool_state' = [tool_state EXCEPT ![i] = "failed"]
                        /\ UNCHANGED <<pc, escaped>>
                  [] outcome = "exit" ->
                        /\ tool_state' = [tool_state EXCEPT ![i] = "exited"]
                        /\ escaped' = "SystemExit"
                        /\ pc' = "done"
                        /\ UNCHANGED messages
    /\ UNCHANGED <<events, received, response_content, tool_call_index_map, tool_calls, model_calls>>
    /\ UNCHANGED failure
    /\ UNCHANGED <<session_meta, invocations, self_history, recorded>>
    /\ UNCHANGED <<rvars, pvars, avars, kvars>>

\* lines 256-260: the call that follows the tool round
CreateFinal ==
    /\ pc = "tools"
    /\ RoundComplete(tool_state)
    /\ model_calls' = model_calls + 1
    /\ \/ pc' = AfterToolRound /\ UNCHANGED <<events, failure>>
       \/ Abort(CreateErrors)
    /\ UNCHANGED <<messages, received, response_content, tool_call_index_map, tool_calls,
                   tool_state, escaped>>
    /\ UNCHANGED <<session_meta, invocations, self_history, recorded>>
    /\ UNCHANGED <<rvars, pvars, avars, kvars>>

\* lines 262-265: one iteration of the loop over the final stream
ReadFinalDelta ==
    /\ pc = "stream2"
    /\ Len(received) < MaxDeltas
    /\ \E delta \in FinalDeltas :
          /\ received' = Append(received, [stream |-> 2, delta |-> delta])
          /\ events' = (IF delta.has_choice THEN events \o AnswerEvents(delta) ELSE events)
    /\ UNCHANGED <<pc, messages, response_content, tool_call_index_map, tool_calls,
                   tool_state, model_calls, escaped>>
    /\ UNCHANGED failure
    /\ UNCHANGED <<session_meta, invocations, self_history, recorded>>
    /\ UNCHANGED <<rvars, pvars, avars, kvars>>

\* the final stream ended: the generator returns
EndOfFinalStream ==
    /\ pc = "stream2"
    /\ pc' = "done"
    /\ UNCHANGED <<messages, events, received, response_content, tool_call_index_map,
                   tool_calls, tool_state, model_calls, escaped>>
    /\ UNCHANGED failure
    /\ UNCHANGED <<session_meta, invocations, self_history, recorded>>
    /\ UNCHANGED <<rvars, pvars, avars, kvars>>

\* process_query, lines 198-204: after the stream loop has ended (an exception
\* of build_safe_prompt, or one that leaves the loop, skips these lines)
RecordTurn ==
    /\ pc = "done"
    /\ ~recorded
    /\ failure # "prompt"
    /\ escaped = "none"
    /\ recorded' = TRUE
    /\ LET final_answer_str == Strip(JoinAnswerChunks(events))
       IN  self_history' = PopIfLong(IF ShouldRecord(final_answer_str)
                                    THEN Append(self_history, <<user_query, final_answer_str>>)
                                    ELSE self_history)
    /\ UNCHANGED <<pc, messages, events, received, response_content, tool_call_index_map,
                   tool_calls, tool_state, model_calls, failure, escaped>>
    /\ UNCHANGED <<session_meta, invocations>>
    /\ UNCHANGED <<rvars, pvars, avars, kvars>>

Next ==
    \/ BuildPrompt
    \/ CreateFirst
    \/ ReadDelta
    \/ EndOfStream
    \/ StreamFails
    \/ ToolStart
    \/ ToolReturn
    \/ CreateFinal
    \/ ReadFinalDelta
    \/ EndOfFinalStream
    \/ RecordTurn

Spec == Init /\ [][Next]_vars

\* every stream the endpoint opens ends or fails, and every awaited call returns
FairSpec == Spec /\ WF_vars(Next)

-----------------------------------------------------------------------------
(* Properties of the tool-call engine *)

ToolMessages == SelectSeq(messages, LAMBDA m : m.role = "tool")

\* the chunks of the given stream that carry a choice, in arrival order
ChunksOf(stream) ==
    LET kept == SelectSeq(received, LAMBDA r : r.stream = stream /\ r.delta.has_choice)
    IN  [j \in 1..Len(kept) |-> kept[j].delta]

RECURSIVE Flatten(_)
\* the entries of delta.tool_calls of a sequence of chunks, in arrival order
Flatten(chunks) ==
    IF chunks = <<>> THEN <<>> ELSE Head(chunks).tool_calls \o Flatten(Tail(chunks))

RECURSIVE Concat(_, _)
\* the concatenation of one field over a sequence of entries
Concat(entries, field) ==
    IF entries = <<>> THEN "" ELSE Head(entries)[field] \o Concat(Tail(entries), field)

\* the entries received for one positional index, in arrival order
FragmentsOf(position) == SelectSeq(Flatten(ChunksOf(1)), LAMBDA tc : tc.index = position)

FinalResponseRequestsTools == Flatten(ChunksOf(2)) # <<>>

KnownCalls == {i \in 1..Len(tool_calls) : tool_calls[i].name \in available_tools}

HasToolMessage(i) ==
    \E j \in 1..Len(ToolMessages) :
        /\ ToolMessages[j].tool_call_id = tool_calls[i].id
        /\ ToolMessages[j].name = tool_calls[i].name

\* C2 (as the code has it): when the final model call has been issued, every
\* tool call of the round whose name is in the registry has returned or raised
\* and has its tool message in the transcript; calls with other names were
\* skipped, and have none.
C2_RoundAtomicity ==
    model_calls = 2 =>
        /\ \A i \in 1..Len(tool_calls) :
              /\ i \in KnownCalls => tool_state[i] \in {"returned", "failed"} /\ HasToolMessage(i)
              /\ i \notin KnownCalls => tool_state[i] = "skipped"
        /\ Len(ToolMessages) = Cardinality(KnownCalls)

\* C2 (as stated): when the next model call has been issued, every tool call of
\* the round has returned and has its tool message in the transcript.
C2_EveryCallHasMessage ==
    model_calls = 2 =>
        /\ \A i \in 1..Len(tool_calls) : tool_state[i] \in {"returned", "failed"} /\ HasToolMessage(i)
        /\ Len(ToolMessages) = Len(tool_calls)

\* the final call was issued after a round of two calls, one of them awaited
C2_Witness ==
    /\ model_calls = 2
    /\ Len(tool_calls) = 2
    /\ tool_state[1] = "skipped"
    /\ tool_state[2] = "returned"

\* C7: the tool call kept for each positional index has id, name and arguments
\* equal to the concatenation, in arrival order, of that index's fragments, and
\* there is one entry per index that was received.
C7_DeltaReconstruction ==
    pc \in {"stream1", "tools", "stream2", "done"} =>
        /\ {tool_call_index_map[j].index : j \in 1..Len(tool_call_index_map)}
              = {tc.index : tc \in Range(Flatten(ChunksOf(1)))}
        /\ \A j, k \in 1..Len(tool_call_index_map) :
              tool_call_index_map[j].index = tool_call_index_map[k].index => j = k
        /\ \A j \in 1..Len(tool_call_index_map) :
              LET fragments == FragmentsOf(tool_call_index_map[j].index)
              IN  /\ tool_call_index_map[j].id = Concat(fragments, "id")
                  /\ tool_call_index_map[j].name = Concat(fragments, "name")
                  /\ tool_call_index_map[j].arguments = Concat(fragments, "arguments")
        /\ pc \in {"tools", "stream2"} => tool_calls = tool_call_index_map

\* the name at index 0 arrives as "get_" and "current_time", with a fragment
\* of index 1 in between
C7_Witness ==
    /\ pc = "tools"
    /\ Len(received) = 3
    /\ received[2].delta.tool_calls # <<>>
    /\ received[2].delta.tool_calls[1].index = 1
    /\ Len(tool_calls) = 2
    /\ tool_calls[1] = [index |-> 0, id |-> "call_1", name |-> "get_current_time", arguments |-> "{}"]
    /\ tool_calls[2] = [index |-> 1, id |-> "c2", name |-> "retrieve_knowledge", arguments |-> "{q:x}"]

Raised == {i \in 1..Len(tool_state) : tool_state[i] \in {"failed", "exited"}}

\* C8 (as stated): when a tool call of the round has raised, its tool message
\* carries the error string, the other calls in the registry are executed and
\* have their message, and the final model call is issued.
C8_FailureIsolated ==
    (pc = "done" /\ Raised # {}) =>
        /\ model_calls = 2
        /\ \A i \in Raised :
              \E j \in 1..Len(ToolMessages) :
                  /\ ToolMessages[j].tool_call_id = tool_calls[i].id
                  /\ ToolMessages[j].content = ToolError
        /\ \A i \in KnownCalls : tool_state[i] \in {"returned", "failed"} /\ HasToolMessage(i)

Texts(evs) ==
    LET answers == SelectSeq(evs, LAMBDA e : e.type = "answer_chunk")
    IN  [j \in 1..Len(answers) |-> answers[j].content]

ReceivedTexts ==
    LET chunks == SelectSeq(received, LAMBDA r : r.delta.has_choice /\ r.delta.content # "")
    IN  [j \in 1..Len(chunks) |-> chunks[j].delta.content]

\* C9: at every point between two reads of the streams, the texts of the
\* answer_chunk events emitted so far are the text fragments received so far,
\* in arrival order.
C9_TextForwardedInOrder == Texts(events) = ReceivedTexts

\* text arrived in a chunk that also carried tool-call fragments, and again
\* in the final stream
C9_Witness ==
    /\ pc = "done"
    /\ Texts(events) = <<"Hel", "lo ">>
    /\ received[1].delta.tool_calls # <<>>
    /\ received[1].delta.content = "Hel"
    /\ \E j \in 1..Len(received) : received[j].stream = 2 /\ received[j].delta.content = "lo "

ErrorEvents == {j \in 1..Len(events) : events[j].type = "error"}

\* C10 (as stated): no exception leaves the turn, and an error event, when
\* there is one, is the only one and the last event.
C10_NoExceptionEscapes ==
    /\ escaped = "none"
    /\ ErrorEvents # {} => (pc = "done" /\ ErrorEvents = {Len(events)})

\* the calls of the endpoint that the turn needed so far: the first one, and
\* the final one once the tool round is over
CallsNeeded == IF tool_calls = <<>> THEN 1 ELSE 2

\* C12 (as stated): a call rejected for a prompt longer than the context window
\* ends the turn with an error event that differs from the one of a network
\* failure, and no further call is issued.
C12_DistinctContextError ==
    failure = "context_length" =>
        /\ pc = "done"
        /\ model_calls = CallsNeeded
        /\ events[Len(events)].type = "error"
        /\ events[Len(events)] # ErrorEvent("network")

C18_OneAtATimeInOrder ==
    /\ Cardinality({i \in 1..Len(tool_state) : tool_state[i] = "running"}) <= 1
    /\ \A i, j \in 1..Len(tool_state) :
          (i < j /\ tool_state[j] # "pending") => tool_state[i] \notin {"pending", "running"}

\* C18 (as stated): no tool call of a round is still waiting to be dispatched
\* when a sibling has already finished.
C18_NoWaitingForSibling ==
    \A i, j \in 1..Len(tool_state) :
        tool_state[i] \in {"returned", "failed"} => tool_state[j] # "pending"

\* two registered tools were requested; the first is running and the second
\* has not been started
C18_Witness ==
    /\ pc = "tools"
    /\ Len(tool_calls) = 2
    /\ KnownCalls = {1, 2}
    /\ tool_state = <<"running", "pending">>

ToolCallEvents == SelectSeq(events, LAMBDA e : e.type = "tool_call")

Started == {i \in 1..Len(tool_state) : tool_state[i] # "pending"}

\* C19: while the first stream is open no tool_call event has been emitted, no
\* tool has been started and no tool message exists; at every point the
\* tool_call events are the names of the finalized calls started so far, in
\* order, and every event is an answer_chunk, a tool_call or an error.
C19_NoToolBeforeEndOfStream ==
    /\ pc \in {"prompt", "create1", "stream1"} =>
          ToolCallEvents = <<>> /\ tool_state = <<>> /\ ToolMessages = <<>>
    /\ Len(ToolCallEvents) = Cardinality(Started)
    /\ \A k \in 1..Len(ToolCallEvents) : ToolCallEvents[k] = ToolCallEvent(tool_calls[k].name)
    /\ \A k \in 1..Len(events) : events[k].type \in {"answer_chunk", "tool_call", "error"}

\* the fragments of a complete call have arrived and the stream is still open
C19_Witness ==
    /\ pc = "stream1"
    /\ Len(tool_call_index_map) = 1
    /\ tool_call_index_map[1].name = "get_current_time"
    /\ tool_call_index_map[1].arguments = "{}"
    /\ events = <<>>

RECURSIVE Join(_)
Join(texts) == IF texts = <<>> THEN "" ELSE Head(texts) \o Join(Tail(texts))

\* C20: when the first stream ends with no accumulated tool call the turn is
\* done: one model call was issued, no tool was started, the transcript is the
\* one the caller passed, and the events are the texts streamed, which make up
\* the answer.
C20_NoToolCallsEndsTurn ==
    (pc # "stream1" /\ model_calls >= 1 /\ failure = "none" /\ tool_call_index_map = <<>>) =>
        /\ pc = "done"
        /\ model_calls = 1
        /\ tool_state = <<>>
        /\ messages = <<[role |-> "system"], [role |-> "user"]>>
        /\ \A k \in 1..Len(events) : events[k].type = "answer_chunk"
        /\ Texts(events) = ReceivedTexts
        /\ response_content = Join(Texts(events))

\* the model answered "Hel", "lo" and requested no tool
C20_Witness ==
    /\ pc = "done"
    /\ failure = "none"
    /\ tool_call_index_map = <<>>
    /\ response_content = "Hello"
    /\ Len(messages) = 2

\* the tool calls of the round that name a registered tool and whose arguments
\* json.loads rejects
UnparsableCalls == {i \in KnownCalls : tool_calls[i].arguments \notin {"", "{}", "{q:x}"}}

Invoked(i) == \E k \in 1..Len(invocations) : invocations[k].call = i

\* C21 (as stated): a tool call whose argument string is not valid JSON still
\* has its tool invoked, with an empty argument object.
C21_InvokedWithEmptyArguments ==
    \A i \in UnparsableCalls :
        (i <= Len(tool_state) /\ tool_state[i] # "pending") =>
            \E k \in 1..Len(invocations) :
                /\ invocations[k].call = i
                /\ invocations[k].function_args.parsed = "{}"

\* C21 (as the code has it): a tool call whose argument string is not valid
\* JSON does not have its tool invoked: json.loads raises inside the try, the
\* call gets a tool message that carries the error text, and the round goes on
\* without an error event.
C21_UnparsableNotInvoked ==
    /\ \A i \in UnparsableCalls :
          /\ ~Invoked(i)
          /\ (i <= Len(tool_state) /\ tool_state[i] # "pending") =>
                /\ tool_state[i] = "failed"
                /\ \E j \in 1..Len(messages) : messages[j] = ToolMessage(tool_calls[i], ToolError)
    /\ pc = "tools" => ErrorEvents = {}

\* the first call of the round had unparsable arguments, the second one was
\* invoked after it and returned, and the final model call was issued
C21_Witness ==
    /\ model_calls = 2
    /\ Len(tool_calls) = 2
    /\ 1 \in UnparsableCalls
    /\ tool_state = <<"failed", "returned">>
    /\ Invoked(2)

\* the tool calls of the round whose name is not in the registry
UnknownCalls == {i \in 1..Len(tool_calls) : tool_calls[i].name \notin available_tools}

\* the call was executed: its function was called, or its arguments were
\* rejected, and it returned or raised
Executed(i) == tool_state[i] \in {"returned", "failed"}

\* C22: a tool call whose name is not in the registry is skipped: no function
\* is invoked for it and nothing is appended for it, no error event is emitted
\* during the round, and the round goes on: once the turn has left a round that
\* held such a call, every registered call of the round was executed and the
\* next model call was issued.
C22_UnknownToolSkipped ==
    /\ \A i \in UnknownCalls :
          /\ ~Invoked(i)
          /\ i <= Len(tool_state) => tool_state[i] \in {"pending", "skipped"}
          /\ ~\E j \in 1..Len(messages) :
                messages[j].role = "tool" /\ messages[j].name = tool_calls[i].name
    /\ (UnknownCalls # {} /\ pc = "tools") => ErrorEvents = {}
    /\ (UnknownCalls # {} /\ pc \in {"stream2", "done"} /\ escaped = "none") =>
          /\ model_calls = 2
          /\ \A j \in KnownCalls : Executed(j)

\* the first call of the round named an unknown tool and was skipped, the
\* second one was invoked and returned, and the final call was issued without
\* any error event
C22_Witness ==
    /\ pc = "stream2"
    /\ Len(tool_calls) = 2
    /\ UnknownCalls = {1}
    /\ tool_state = <<"skipped", "returned">>
    /\ Invoked(2)
    /\ ErrorEvents = {}

\* the positions of the registered calls of the round, in list order
KnownCallSeq ==
    SelectSeq([i \in 1..Len(tool_calls) |-> i], LAMBDA i : tool_calls[i].name \in available_tools)

\* C23 (as stated): when the next model call is issued after a tool round, the
\* transcript holds, after the assistant message, exactly one tool message per
\* listed tool call, each tagged with the id of its call.
C23_OneResultPerListedCall ==
    model_calls = 2 =>
        /\ Len(messages) = 3 + Len(tool_calls)
        /\ \A k \in 1..Len(tool_calls) :
              /\ 3 + k <= Len(messages)
              /\ messages[3 + k].role = "tool"
              /\ messages[3 + k].tool_call_id = tool_calls[k].id

\* C23 (as the code has it): when the next model call is issued after a tool
\* round, the transcript is the system and user messages, the assistant message
\* that lists the tool calls, and then exactly one tool message for each listed
\* call whose name is in the registry, in list order, each tagged with the id
\* and the name of its call; a call with an unknown name has no tool message.
C23_OneResultPerRegisteredCall ==
    model_calls = 2 =>
        /\ Len(messages) = 3 + Len(KnownCallSeq)
        /\ messages[3] = [role |-> "assistant", content |-> response_content,
                          tool_calls |-> tool_calls]
        /\ \A k \in 1..Len(KnownCallSeq) :
              /\ messages[3 + k].role = "tool"
              /\ messages[3 + k].tool_call_id = tool_calls[KnownCallSeq[k]].id
              /\ messages[3 + k].name = tool_calls[KnownCallSeq[k]].name
              /\ messages[3 + k].content \in {ToolResult, ToolError}

\* the final call was issued after a round of a registered call and a call
\* with an unknown name: the transcript has the one tool message of the first
C23_Witness ==
    /\ model_calls = 2
    /\ Len(tool_calls) = 2
    /\ KnownCallSeq = <<1>>
    /\ tool_calls[1].id = "call_1"
    /\ Len(messages) = 4
    /\ messages[4].tool_call_id = "call_1"

MostRecent(seq, n) == IF Len(seq) <= n THEN seq ELSE SubSeq(seq, Len(seq) - n + 1, Len(seq))

\* C27: the agent's history never holds more than history_window turns; once
\* the lines after the stream loop have run it holds the most recent recorded
\* turns in their original order: the earlier turns, followed by this turn
\* exactly when its answer text, without surrounding blanks, is not empty (so
\* only when the accumulated answer text is not empty).
C27_HistoryWindow ==
    LET answer == Join(Texts(events))
        this_turn == IF Strip(answer) # "" THEN <<<<user_query, Strip(answer)>>>> ELSE <<>>
    IN  /\ Len(self_history) <= history_window
        /\ ~recorded => self_history = EarlierTurns
        /\ recorded =>
              /\ self_history = MostRecent(EarlierTurns \o this_turn, history_window)
              /\ self_history # EarlierTurns => answer # ""

\* the turn answered "Hel" and then "lo " after a tool round: the oldest turn
\* left the window and this turn is the newest entry
C27_Witness ==
    /\ recorded
    /\ Texts(events) = <<"Hel", "lo ">>
    /\ self_history = <<<<"q2", "a2">>, <<user_query, "Hello">>>>

\* C28: a turn that ends with an error event leaves the agent's history as it
\* was before the turn: text that was streamed before the failure is not
\* recorded.
C28_ErrorLeavesHistoryUnchanged ==
    (ErrorEvents # {} /\ pc = "done") => self_history = EarlierTurns

-----------------------------------------------------------------------------
(* api_service: stream_chat, clear_session, get_chat_history, and RedisManager *)

\* requests the service receives
MaxRequests == 3

HISTORY_MAX_LENGTH == 20

UserQueries == {"hi", "price?"}

\* what the joined answer_chunk texts of a turn can be, stripped
FinalResponses == {"", "hello"}

\* json.dumps({"role": ..., "content": ...}), read back by json.loads
TurnItem(role, content) == [role |-> role, content |-> content]

RECURSIVE LPush(_, _)
\* LPUSH key v1 v2 ...: each value in turn becomes the head of the list
LPush(list, values) ==
    IF values = <<>> THEN list ELSE LPush(<<Head(values)>> \o list, Tail(values))

\* LTRIM key start stop, for 0 <= start <= stop
LTrim(list, start, stop) == SubSeq(list, start + 1, Min(stop + 1, Len(list)))

\* RedisManager.append_to_history: lpush(assistant_turn, user_turn), ltrim
append_to_history(list, user_message, assistant_message) ==
    LTrim(LPush(list, <<TurnItem("assistant", assistant_message), TurnItem("user", user_message)>>),
          0, HISTORY_MAX_LENGTH - 1)

Reverse(list) == [i \in 1..Len(list) |-> list[Len(list) + 1 - i]]

RECURSIVE PairUp(_, _)
\* the loop of get_history: for i in range(0, len(history_json), 2)
PairUp(history_json, i) ==
    IF i >= Len(history_json) THEN <<>>
    ELSE (IF /\ i + 1 < Len(history_json)
             /\ history_json[i + 1].role = "user"
             /\ history_json[i + 2].role = "assistant"
          THEN <<<<history_json[i + 1].content, history_json[i + 2].content>>>>
          ELSE <<>>)
         \o PairUp(history_json, i + 2)

\* RedisManager.get_history: lrange 0 -1, reverse, pair up
get_history(list) == IF list = <<>> THEN <<>> ELSE PairUp(Reverse(list), 0)

RECURSIVE OrderByCreatedAt(_)
\* order_by(ConversationHistory.created_at.asc())
OrderByCreatedAt(rows) ==
    IF rows = <<>> THEN <<>>
    ELSE LET first == CHOOSE i \in 1..Len(rows) :
                          \A j \in 1..Len(rows) :
                              rows[i].created_at < rows[j].created_at
                                  \/ (rows[i].created_at = rows[j].created_at /\ i <= j)
         IN  <<rows[first]>> \o OrderByCreatedAt(SubSeq(rows, 1, first - 1) \o SubSeq(rows, first + 1, Len(rows)))

NewRequest(kind, position, query) ==
    [kind |-> kind, pc |-> position, query |-> query, history |-> <<>>, answer |-> "",
     bg |-> "none", status |-> "none", body |-> <<>>, after_clear |-> FALSE]

\* a clear_session request has returned its success response
ClearReturned == \E r \in 1..Len(requests) : requests[r].kind = "clear" /\ requests[r].pc = "done"

\* an existing session: its key is in Redis and its row in Sessions
InitApi ==
    /\ requests = <<>>
    /\ redis_session = TRUE
    /\ redis_history = <<>>
    /\ appended = <<>>
    /\ pg_deleted = FALSE
    /\ pg_history = <<>>
    /\ now = 0
    /\ RetrieverIdle
    /\ PromptIdle
    /\ EngineIdle
    /\ KeysIdle

\* the fields of request r replaced as given
Update(r, changes) ==
    [requests EXCEPT ![r] = [f \in DOMAIN requests[r] |->
                                IF f \in DOMAIN changes THEN changes[f] ELSE requests[r][f]]]

\* POST /chat/stream with a session_id and a query (lines 182-186)
StreamChat ==
    /\ Len(requests) < MaxRequests
    /\ \E query \in UserQueries :
          requests' = Append(requests, NewRequest("chat", "get_session", query))
    /\ UNCHANGED <<redis_session, redis_history, appended, pg_deleted, pg_history, now>>
    /\ UNCHANGED <<rvars, pvars, evars, kvars>>

\* lines 187-190: redis_manager.get_session; no session ends the request
GetSession ==
    /\ \E r \in 1..Len(requests) :
          /\ requests[r].kind = "chat"
          /\ requests[r].pc = "get_session"
          /\ requests' = IF redis_session
                         THEN Update(r, [pc |-> "get_history"])
                         ELSE Update(r, [pc |-> "done", status |-> "invalid_session"])
    /\ UNCHANGED <<redis_session, redis_history, appended, pg_deleted, pg_history, now>>
    /\ UNCHANGED <<rvars, pvars, evars, kvars>>

\* line 191: redis_manager.get_history
GetHistory ==
    /\ \E r \in 1..Len(requests) :
          /\ requests[r].kind = "chat"
          /\ requests[r].pc = "get_history"
          /\ requests' = Update(r, [pc |-> "user_context", history |-> get_history(redis_history)])
    /\ UNCHANGED <<redis_session, redis_history, appended, pg_deleted, pg_history, now>>
    /\ UNCHANGED <<rvars, pvars, evars, kvars>>

\* lines 192-199: after generate_user_context the turn enters process_query
ProcessQuery ==
    /\ \E r \in 1..Len(requests) :
          /\ requests[r].kind = "chat"
          /\ requests[r].pc = "user_context"
          /\ requests' = Update(r, [pc |-> "process_query"])
    /\ UNCHANGED <<redis_session, redis_history, appended, pg_deleted, pg_history, now>>
    /\ UNCHANGED <<rvars, pvars, evars, kvars>>

\* lines 199-204: the stream of process_query ends; an empty answer ends the
\* request, another one is stored
EndOfTurn ==
    /\ \E r \in 1..Len(requests) :
          /\ requests[r].kind = "chat"
          /\ requests[r].pc = "process_query"
          /\ \E final_response_str \in FinalResponses :
                requests' = IF final_response_str # ""
                            THEN Update(r, [pc |-> "append", answer |-> final_response_str])
                            ELSE Update(r, [pc |-> "done", status |-> "streamed"])
    /\ UNCHANGED <<redis_session, redis_history, appended, pg_deleted, pg_history, now>>
    /\ UNCHANGED <<rvars, pvars, evars, kvars>>

\* lines 205-207: append_to_history, then the background task is registered
\* and the response ends
AppendToHistory ==
    /\ \E r \in 1..Len(requests) :
          /\ requests[r].kind = "chat"
          /\ requests[r].pc = "append"
          /\ redis_history' = append_to_history(redis_history, requests[r].query, requests[r].answer)
          /\ appended' = Append(appended, <<requests[r].query, requests[r].answer>>)
          /\ requests' = Update(r, [pc |-> "done", status |-> "streamed", bg |-> "pending"])
    /\ UNCHANGED <<redis_session, pg_deleted, pg_history, now>>
    /\ UNCHANGED <<rvars, pvars, evars, kvars>>

\* log_conversation_turn_to_db, run after the response: two rows, one commit
LogConversationTurn ==
    /\ \E r \in 1..Len(requests) :
          /\ requests[r].kind = "chat"
          /\ requests[r].pc = "done"
          /\ requests[r].bg = "pending"
          /\ pg_history' = pg_history \o
                <<[role |-> "user", content |-> requests[r].query, created_at |-> now + 1],
                  [role |-> "assistant", content |-> requests[r].answer, created_at |-> now + 2]>>
          /\ now' = now + 2
          /\ requests' = Update(r, [bg |-> "done"])
    /\ UNCHANGED <<redis_session, redis_history, appended, pg_deleted>>
    /\ UNCHANGED <<rvars, pvars, evars, kvars>>

\* POST /chat/clear_session, lines 160-162: redis_manager.delete_session
ClearSession ==
    /\ Len(requests) < MaxRequests
    /\ requests' = Append(requests, NewRequest("clear", "respond", ""))
    /\ redis_session' = FALSE
    /\ redis_history' = <<>>
    /\ appended' = <<>>
    /\ UNCHANGED <<pg_deleted, pg_history, now>>
    /\ UNCHANGED <<rvars, pvars, evars, kvars>>

\* lines 164-166: the background task is registered, the success response returned
ClearRespond ==
    /\ \E r \in 1..Len(requests) :
          /\ requests[r].kind = "clear"
          /\ requests[r].pc = "respond"
          /\ requests' = Update(r, [pc |-> "done", status |-> "success", bg |-> "pending"])
    /\ UNCHANGED <<redis_session, redis_history, appended, pg_deleted, pg_history, now>>
    /\ UNCHANGED <<rvars, pvars, evars, kvars>>

\* mark_session_deleted_in_db, run after the response
MarkSessionDeleted ==
    /\ \E r \in 1..Len(requests) :
          /\ requests[r].kind = "clear"
          /\ requests[r].pc = "done"
          /\ requests[r].bg = "pending"
          /\ pg_deleted' = TRUE
          /\ requests' = Update(r, [bg |-> "done"])
    /\ UNCHANGED <<redis_session, redis_history, appended, pg_history, now>>
    /\ UNCHANGED <<rvars, pvars, evars, kvars>>

\* GET /chat/history/{session_id}: 404 for a deleted session, else the rows
GetChatHistory ==
    /\ Len(requests) < MaxRequests
    /\ requests' = Append(requests,
          [NewRequest("history", "done", "") EXCEPT
              !.status = IF pg_deleted THEN "404" ELSE "200",
              !.body = IF pg_deleted THEN <<>> ELSE OrderByCreatedAt(pg_history),
              !.after_clear = ClearReturned])
    /\ UNCHANGED <<redis_session, redis_history, appended, pg_deleted, pg_history, now>>
    /\ UNCHANGED <<rvars, pvars, evars, kvars>>

NextApi ==
    \/ StreamChat
    \/ GetSession
    \/ GetHistory
    \/ ProcessQuery
    \/ EndOfTurn
    \/ AppendToHistory
    \/ LogConversationTurn
    \/ ClearSession
    \/ ClearRespond
    \/ MarkSessionDeleted
    \/ GetChatHistory

SpecApi == InitApi /\ [][NextApi]_vars

-----------------------------------------------------------------------------
(* Properties of the session service *)

ChatRequests == {r \in 1..Len(requests) : requests[r].kind = "chat"}

\* C14 (as stated): at most one request of the session is inside process_query
\* at any time.
C14_OneTurnPerSession ==
    Cardinality({r \in ChatRequests : requests[r].pc = "process_query"}) <= 1

RECURSIVE EntriesOf(_)
\* the entries that a sequence of (user, assistant) pairs stands for
EntriesOf(pairs) ==
    IF pairs = <<>> THEN <<>>
    ELSE <<TurnItem("user", Head(pairs)[1]), TurnItem("assistant", Head(pairs)[2])>>
             \o EntriesOf(Tail(pairs))

\* what the history endpoint answers now, without the timestamps
HistoryEntries ==
    LET rows == OrderByCreatedAt(pg_history)
    IN  [i \in 1..Len(rows) |-> TurnItem(rows[i].role, rows[i].content)]

\* C15 (as stated): when the session was not cleared and the background write
\* of every completed turn has run, the history endpoint returns two entries
\* per completed turn, user entry then assistant entry, the turns in the order
\* they were completed.
C15_HistoryTwoPerTurnInOrder ==
    (/\ \A r \in 1..Len(requests) : requests[r].kind # "clear"
     /\ \A r \in ChatRequests : requests[r].bg # "pending")
        => HistoryEntries = EntriesOf(appended)

\* C16 (as stated): once clear_session has returned success, the session key
\* and the history key do not exist in Redis and the history endpoint answers 404.
C16_ClearedSessionIsGone ==
    /\ ClearReturned => (~redis_session /\ redis_history = <<>>)
    /\ \A r \in 1..Len(requests) :
          (requests[r].kind = "history" /\ requests[r].after_clear) => requests[r].status = "404"

\* the last n elements of a sequence
LastN(seq, n) == SubSeq(seq, Max(1, Len(seq) - n + 1), Len(seq))

\* C17 (as stated): get_history returns the last min(k, 10) of the k appended
\* pairs, oldest first.
C17_GetHistoryLastPairs ==
    get_history(redis_history) = LastN(appended, HISTORY_MAX_LENGTH \div 2)

\* C29: once clear_session has deleted the keys of the session, no later step
\* brings them back: the session key and the history key stay absent.
C29_ClearedKeysStayDeleted ==
    (\E r \in 1..Len(requests) : requests[r].kind = "clear") =>
        (~redis_session /\ redis_history = <<>>)

-----------------------------------------------------------------------------
(* ApiKeyManager (ingestion/proposition/client_handler) *)

\* the latest time the clock reaches
MaxTime == 15

\* self.api_keys, in file order
api_keys == <<"k1", "k2">>

\* key_cooldown_seconds = 60, in units of five seconds
key_cooldown == 12

\* global_cooldown_seconds = 5, in units of five seconds
global_cooldown == 1

\* no datetime yet (None, or no entry in key_last_used)
NoTime == -1

\* releasing a key as soon as the global cooldown has passed
KeyAvailable_AfterGlobalCooldown(last_used, at) ==
    last_used = NoTime \/ (at - last_used) > global_cooldown

\* not last_used or (datetime.now() - last_used) > self.key_cooldown
KeyAvailable(last_used, at) == last_used = NoTime \/ (at - last_used) > key_cooldown

\* the offsets i of range(num_keys) whose key is available
AvailableOffsets(at) ==
    {i \in 0..(Len(api_keys) - 1) :
        KeyAvailable(key_last_used[api_keys[((key_index + i) % Len(api_keys)) + 1]], at)}

\* time.sleep(d) returns when at least d has passed
SleepUntil(t) == {t, t + 1}

\* min(last_used + self.key_cooldown for the keys that were used)
EarliestAvailableTime ==
    LET times == {key_last_used[api_keys[k]] + key_cooldown :
                     k \in {j \in 1..Len(api_keys) : key_last_used[api_keys[j]] # NoTime}}
    IN  CHOOSE t \in times : \A u \in times : t <= u

InitKeys ==
    /\ kpc = "ready"
    /\ clock = 0
    /\ key_last_used = [key \in Range(api_keys) |-> NoTime]
    /\ last_global_call_time = NoTime
    /\ key_index = 0
    /\ waited = FALSE
    /\ dispatched = <<>>
    /\ RetrieverIdle
    /\ PromptIdle
    /\ EngineIdle
    /\ ApiIdle

\* time passes, whatever the manager is doing
Tick ==
    /\ clock < MaxTime
    /\ clock' = clock + 1
    /\ UNCHANGED <<kpc, key_last_used, last_global_call_time, key_index, waited, dispatched>>
    /\ UNCHANGED <<rvars, pvars, evars, avars>>

\* get_client, lines 72-78: the global cooldown is slept out first
GetClient ==
    /\ kpc = "ready"
    /\ IF last_global_call_time # NoTime /\ clock - last_global_call_time < global_cooldown
       THEN /\ clock' \in SleepUntil(last_global_call_time + global_cooldown)
            /\ clock' <= MaxTime
       ELSE UNCHANGED clock
    /\ kpc' = "scan"
    /\ waited' = FALSE
    /\ UNCHANGED <<key_last_used, last_global_call_time, key_index, dispatched>>
    /\ UNCHANGED <<rvars, pvars, evars, avars>>

\* lines 84-110: one pass of the for loop from the round-robin index; the
\* first available key is stamped and dispatched, with a clock read again at
\* line 98; when no key is available the call goes to wait
ScanKeys ==
    /\ kpc = "scan"
    /\ IF AvailableOffsets(clock) = {}
       THEN /\ kpc' = "wait"
            /\ UNCHANGED <<clock, key_last_used, last_global_call_time, key_index, dispatched>>
       ELSE LET i == CHOOSE o \in AvailableOffsets(clock) : \A q \in AvailableOffsets(clock) : o <= q
                current_index == (key_index + i) % Len(api_keys)
                key == api_keys[current_index + 1]
            IN  /\ clock' \in {clock, clock + 1}
                /\ clock' <= MaxTime
                /\ key_last_used' = [key_last_used EXCEPT ![key] = clock']
                /\ last_global_call_time' = clock'
                /\ key_index' = (current_index + 1) % Len(api_keys)
                /\ dispatched' = Append(dispatched, [key |-> key, at |-> clock', waited |-> waited])
                /\ kpc' = "ready"
    /\ UNCHANGED waited
    /\ UNCHANGED <<rvars, pvars, evars, avars>>

\* _wait_for_next_available_key: sleep until the earliest key is due, if that
\* is in the future, and scan again
WaitForNextAvailableKey ==
    /\ kpc = "wait"
    /\ IF EarliestAvailableTime - clock > 0
       THEN /\ clock' \in SleepUntil(EarliestAvailableTime)
            /\ clock' <= MaxTime
       ELSE UNCHANGED clock
    /\ kpc' = "scan"
    /\ waited' = TRUE
    /\ UNCHANGED <<key_last_used, last_global_call_time, key_index, dispatched>>
    /\ UNCHANGED <<rvars, pvars, evars, avars>>

NextKeys == Tick \/ GetClient \/ ScanKeys \/ WaitForNextAvailableKey

SpecKeys == InitKeys /\ [][NextKeys]_vars

\* C26: a key is never dispatched again before its cooldown has elapsed since
\* its previous dispatch, whether or not the call had to wait; a call waits
\* only when every key has been dispatched before and none was available.
C26_KeyCooldownRespected ==
    /\ \A a, b \in 1..Len(dispatched) :
          (a < b /\ dispatched[a].key = dispatched[b].key) =>
              dispatched[b].at - dispatched[a].at >= key_cooldown
    /\ \A b \in 1..Len(dispatched) :
          dispatched[b].waited =>
              \A k \in 1..Len(api_keys) : \E a \in 1..(b - 1) : dispatched[a].key = api_keys[k]
    /\ kpc = "wait" => \A k \in 1..Len(api_keys) : key_last_used[api_keys[k]] # NoTime

\* both keys were dispatched, the third call found them on cooldown and
\* waited, and then dispatched the first key again
C26_Witness ==
    /\ Len(dispatched) = 3
    /\ dispatched[3].waited
    /\ dispatched[3].key = dispatched[1].key
    /\ dispatched[2].key # dispatched[1].key
    /\ kpc = "ready"

====
